---------------------------- MODULE Spec2Model ----------------------------
(***************************************************************************)
(* The Tetris engine of src/app/tetris/tetris.ts (class Tetris) as a state *)
(* machine: the component's fields, the browser objects it talks to        *)
(* (keydown listener, requestAnimationFrame queue, localStorage, the clock),*)
(* and one action per event the browser can deliver.  Rendering (draw,     *)
(* drawBlock, the canvas context) changes no engine state and is left out. *)
(***************************************************************************)
EXTENDS Integers, Sequences, FiniteSets

----------------------------------------------------------------------------
(* Program constants                                                        *)

cols == 10
rows == 20
BaseInterval == 1000
MinInterval == 100
IntervalStep == 100
LinesPerLevel == 10
HardDropBonus == 2

(* Bounds of the exploration                                                *)

\* key events delivered in one run
MaxKeys == 1
\* times the clock is seen to advance in one run
MaxTimeSteps == 1
\* animation-frame callbacks that may be pending at once
MaxPending == 2
\* rows that may be full in a board given to clearLines on its own
MaxFull == 3
\* rotations, and moves between them, of one piece turned round
MaxTurns == 4
MaxShifts == 1
\* rows between the place where a piece's life is taken up and the lowest
\* anchor row
MaxFallRows == 2
\* the largest count and the highest level given to updateScore on its own
MaxCleared == 6
MaxLevel == 12
\* how far outside the board isValidMove is asked on its own
ProbeMargin == 2

\* null for this.currentPiece, undefined for this.gameLoop (handles are
\* positive, so both are falsy), NaN, and an absent localStorage item
NoPiece == [shape |-> << >>, color |-> ""]
NoHandle == 0
NaN == 0 - 1
NoItem == << >>
NoPos == [x |-> 0, y |-> 0]
\* the time of an event that has not happened
Never == 0 - 1
NoProbe == [fn |-> "", x |-> 0, y |-> 0, input |-> << >>, ret |-> 0, res |-> FALSE]

Min2(a, b) == IF a < b THEN a ELSE b
Max2(a, b) == IF a > b THEN a ELSE b

----------------------------------------------------------------------------
(* Tetromino catalog, in the order Object.values(this.tetrominoes) yields.  *)
(* A matrix is a sequence of rows; the code's shape[row][col] (0-based) is  *)
(* At(shape, row, col).                                                     *)

tetrominoes ==
  << [shape |-> << <<0,0,0,0>>, <<1,1,1,1>>, <<0,0,0,0>>, <<0,0,0,0>> >>, color |-> "#00f0f0"],
     [shape |-> << <<1,0,0>>, <<1,1,1>>, <<0,0,0>> >>, color |-> "#0000f0"],
     [shape |-> << <<0,0,1>>, <<1,1,1>>, <<0,0,0>> >>, color |-> "#f0a000"],
     [shape |-> << <<1,1>>, <<1,1>> >>, color |-> "#f0f000"],
     [shape |-> << <<0,1,1>>, <<1,1,0>>, <<0,0,0>> >>, color |-> "#00f000"],
     [shape |-> << <<0,1,0>>, <<1,1,1>>, <<0,0,0>> >>, color |-> "#a000f0"],
     [shape |-> << <<1,1,0>>, <<0,1,1>>, <<0,0,0>> >>, color |-> "#f00000"] >>

\* Math.floor(Math.random() * pieces.length) ranges over these indices
RandomIndex == 0 .. (Len(tetrominoes) - 1)

At(m, row, col) == m[row + 1][col + 1]

\* Array(this.cols).fill('')
EmptyRow == [c \in 1 .. cols |-> ""]

\* initializeBoard: Array(rows) of Array(cols).fill('')
initializeBoard == [r \in 1 .. rows |-> EmptyRow]

----------------------------------------------------------------------------
(* localStorage holds strings; a string is a sequence of characters.        *)

Digits == <<"0", "1", "2", "3", "4", "5", "6", "7", "8", "9">>

\* Number.prototype.toString() of a non-negative integer
RECURSIVE toString(_)
toString(n) ==
  IF n < 10 THEN << Digits[n + 1] >>
  ELSE Append(toString(n \div 10), Digits[(n % 10) + 1])

DigitValue(ch) == (CHOOSE i \in 1 .. 10 : Digits[i] = ch) - 1
IsDigit(ch) == \E i \in 1 .. 10 : Digits[i] = ch

\* parseInt(s, 10) of a string of digits: the leading digits' value
\* (NaN when there is no leading digit)
RECURSIVE ParseDigits(_, _)
ParseDigits(s, acc) ==
  IF s = << >> \/ ~IsDigit(Head(s)) THEN acc
  ELSE ParseDigits(Tail(s), acc * 10 + DigitValue(Head(s)))

ParseInt(s) ==
  IF s = << >> \/ ~IsDigit(Head(s)) THEN NaN ELSE ParseDigits(s, 0)

----------------------------------------------------------------------------
(* Pure helpers of the engine, on a record t of the component's fields.     *)

\* the mutant: the outer loop stops before the last row of the matrix
rotateSkipLastRow(matrix) ==
  LET n == Len(matrix)
  IN [jj \in 1 .. n |-> [kk \in 1 .. n |->
        IF n - kk + 1 = n THEN 0 ELSE matrix[n - kk + 1][jj]]]

\* rotate(matrix): rotated[j][n - 1 - i] = matrix[i][j]
rotate(matrix) ==
  LET n == Len(matrix)
  IN [jj \in 1 .. n |-> [kk \in 1 .. n |-> matrix[n - kk + 1][jj]]]

\* isValidMove's loop body for the cell with row-major index idx; the scan
\* returns false at the first offending filled cell, true after the last.
RECURSIVE ValidScan(_, _, _, _, _)
ValidScan(b, shape, x, y, idx) ==
  LET n == Len(shape)
      row == idx \div n
      col == idx % n
      newX == x + col
      newY == y + row
  IN IF idx >= n * n THEN TRUE
     ELSE IF At(shape, row, col) # 0
       THEN IF newX < 0 \/ newX >= cols \/ newY >= rows THEN FALSE
            ELSE IF newY >= 0 /\ At(b, newY, newX) # "" THEN FALSE
            ELSE ValidScan(b, shape, x, y, idx + 1)
       ELSE ValidScan(b, shape, x, y, idx + 1)

\* the mutant: the collision check against existing blocks is dropped
RECURSIVE ValidScanNoCollision(_, _, _, _, _)
ValidScanNoCollision(b, shape, x, y, idx) ==
  LET n == Len(shape)
      row == idx \div n
      col == idx % n
      newX == x + col
      newY == y + row
  IN IF idx >= n * n THEN TRUE
     ELSE IF At(shape, row, col) # 0
       THEN IF newX < 0 \/ newX >= cols \/ newY >= rows THEN FALSE
            ELSE ValidScanNoCollision(b, shape, x, y, idx + 1)
       ELSE ValidScanNoCollision(b, shape, x, y, idx + 1)

isValidMoveNoCollision(t, x, y) ==
  IF t.currentPiece = NoPiece THEN FALSE
  ELSE ValidScanNoCollision(t.board, t.currentPiece.shape, x, y, 0)

isValidMove(t, x, y) ==
  IF t.currentPiece = NoPiece THEN FALSE
  ELSE ValidScan(t.board, t.currentPiece.shape, x, y, 0)

\* lockPiece's loop: the filled cell with row-major index idx tags its board
\* cell when its row is on the board
RECURSIVE LockScan(_, _, _, _, _)
LockScan(b, piece, pos, idx, n) ==
  LET row == idx \div n
      col == idx % n
      y == pos.y + row
      x == pos.x + col
  IN IF idx >= n * n THEN b
     ELSE IF At(piece.shape, row, col) # 0 /\ y >= 0
       THEN LockScan([b EXCEPT ![y + 1][x + 1] = piece.color], piece, pos, idx + 1, n)
       ELSE LockScan(b, piece, pos, idx + 1, n)

\* lockPiece; lockAt records where the lock happened (history, not a field)
lockPiece(t) ==
  IF t.currentPiece = NoPiece THEN t
  ELSE [t EXCEPT !.board = LockScan(t.board, t.currentPiece, t.currentPosition,
                                    0, Len(t.currentPiece.shape)),
                 !.locked = TRUE, !.lockAt = t.currentPosition]

\* board[row].every(cell => cell !== '')
RowFull(line) == \A c \in 1 .. cols : line[c] # ""

\* this.board.splice(row, 1); this.board.unshift(Array(cols).fill(''))
SpliceUnshift(b, row) ==
  << EmptyRow >> \o SubSeq(b, 1, row) \o SubSeq(b, row + 2, Len(b))

\* the mutant: after a removal the scan goes on one row up
RECURSIVE ClearScanNoRecheck(_, _, _)
ClearScanNoRecheck(b, row, linesCleared) ==
  IF row < 0 THEN [board |-> b, linesCleared |-> linesCleared]
  ELSE IF RowFull(b[row + 1])
    THEN ClearScanNoRecheck(SpliceUnshift(b, row), row - 1, linesCleared + 1)
    ELSE ClearScanNoRecheck(b, row - 1, linesCleared)

\* the mutant: the scan ends at the first row it removes
RECURSIVE ClearScanFirstOnly(_, _, _)
ClearScanFirstOnly(b, row, linesCleared) ==
  IF row < 0 THEN [board |-> b, linesCleared |-> linesCleared]
  ELSE IF RowFull(b[row + 1])
    THEN [board |-> SpliceUnshift(b, row), linesCleared |-> linesCleared + 1]
    ELSE ClearScanFirstOnly(b, row - 1, linesCleared)

\* the for loop of clearLines, from index row downward; after a removal the
\* same index is looked at again (row++ then the loop's row--)
RECURSIVE ClearScan(_, _, _)
ClearScan(b, row, linesCleared) ==
  IF row < 0 THEN [board |-> b, linesCleared |-> linesCleared]
  ELSE IF RowFull(b[row + 1])
    THEN ClearScan(SpliceUnshift(b, row), row, linesCleared + 1)
    ELSE ClearScan(b, row - 1, linesCleared)

\* the mutant: the interval is not floored
IntervalForNoFloor(newLevel) == BaseInterval - (newLevel - 1) * IntervalStep

\* Math.max(100, 1000 - (newLevel - 1) * 100)
IntervalFor(newLevel) ==
  Max2(MinInterval, BaseInterval - (newLevel - 1) * IntervalStep)

\* the mutant: the level changes but the interval is left as it was
LevelUpdateKeepInterval(t, n) ==
  IF n > 0
  THEN LET newLines == t.lines + n
           newLevel == (newLines \div LinesPerLevel) + 1
       IN [t EXCEPT !.lines = newLines, !.level = newLevel]
  ELSE t

\* the tail of clearLines: lines, level and dropInterval after n rows went
LevelUpdate(t, n) ==
  IF n > 0
  THEN LET newLines == t.lines + n
           newLevel == (newLines \div LinesPerLevel) + 1
       IN IF newLevel # t.level
          THEN [t EXCEPT !.lines = newLines, !.level = newLevel,
                         !.dropInterval = IntervalFor(newLevel)]
          ELSE [t EXCEPT !.lines = newLines]
  ELSE t

\* clearLines: the record after it, with its return value in .ret
clearLines(t) ==
  LET r == ClearScan(t.board, rows - 1, 0)
  IN [LevelUpdate([t EXCEPT !.board = r.board], r.linesCleared)
        EXCEPT !.ret = r.linesCleared]

\* the mutant: a count past the table takes the table's last entry
BaseScoreClamped(linesCleared) ==
  LET points == <<0, 100, 300, 500, 800>>
  IN points[Min2(linesCleared, 4) + 1]

\* points[linesCleared] || 0
BaseScore(linesCleared) ==
  LET points == <<0, 100, 300, 500, 800>>
  IN IF linesCleared + 1 \in DOMAIN points THEN points[linesCleared + 1] ELSE 0

\* the mutant: the new high score is not written to localStorage
updateScoreNoPersist(t, linesCleared) ==
  LET s == t.score + BaseScore(linesCleared) * t.level
  IN IF s > t.highScore
     THEN [t EXCEPT !.score = s, !.highScore = s]
     ELSE [t EXCEPT !.score = s]

\* updateScore
updateScore(t, linesCleared) ==
  LET s == t.score + BaseScore(linesCleared) * t.level
  IN IF s > t.highScore
     THEN [t EXCEPT !.score = s, !.highScore = s, !.storage = << toString(s) >>]
     ELSE [t EXCEPT !.score = s]

\* endGame
endGame(t) == [t EXCEPT !.gameStarted = FALSE, !.gameOver = TRUE]

\* Math.floor(cols / 2) - Math.floor(shape[0].length / 2)
SpawnX(shape) == (cols \div 2) - (Len(shape[1]) \div 2)

\* the mutant: a spawn that never ends the game
spawnPieceNoEnd(t, rnd) ==
  LET piece == tetrominoes[rnd + 1]
  IN [t EXCEPT !.currentPiece = piece,
               !.currentPosition = [x |-> SpawnX(piece.shape), y |-> 0],
               !.spawned = TRUE]

\* spawnPiece with the random index rnd
spawnPiece(t, rnd) ==
  LET piece == tetrominoes[rnd + 1]
      t1 == [t EXCEPT !.currentPiece = piece,
                      !.currentPosition = [x |-> SpawnX(piece.shape), y |-> 0],
                      !.spawned = TRUE]
  IN IF ~isValidMove(t1, t1.currentPosition.x, t1.currentPosition.y)
     THEN endGame(t1)
     ELSE t1

\* lockPiece(); clearLines(); updateScore if any; spawnPiece()
LockSequence(t, rnd) ==
  LET t1 == clearLines(lockPiece(t))
      t2 == IF t1.ret > 0 THEN updateScore(t1, t1.ret) ELSE t1
  IN spawnPiece(t2, rnd)

\* the mutant: any failed move locks
movePieceLockAlways(t, dx, dy, rnd) ==
  IF t.currentPiece = NoPiece THEN t
  ELSE LET newX == t.currentPosition.x + dx
           newY == t.currentPosition.y + dy
       IN IF isValidMove(t, newX, newY)
          THEN [t EXCEPT !.currentPosition = [x |-> newX, y |-> newY]]
          ELSE LockSequence(t, rnd)

\* the mutant: a sideways move is committed without the placement check
movePieceThroughWalls(t, dx, dy, rnd) ==
  IF t.currentPiece = NoPiece THEN t
  ELSE LET newX == t.currentPosition.x + dx
           newY == t.currentPosition.y + dy
       IN IF dy = 0 \/ isValidMove(t, newX, newY)
          THEN [t EXCEPT !.currentPosition = [x |-> newX, y |-> newY]]
          ELSE IF dy > 0 THEN LockSequence(t, rnd)
          ELSE [t EXCEPT !.blocked = TRUE]

\* movePiece(dx, dy)
movePiece(t, dx, dy, rnd) ==
  IF t.currentPiece = NoPiece THEN t
  ELSE LET newX == t.currentPosition.x + dx
           newY == t.currentPosition.y + dy
       IN IF isValidMove(t, newX, newY)
          THEN [t EXCEPT !.currentPosition = [x |-> newX, y |-> newY]]
          ELSE IF dy > 0 THEN LockSequence(t, rnd)
          ELSE [t EXCEPT !.blocked = TRUE]

\* the mutant: every offset is tried with its sign turned
RECURSIVE KickScanMirrored(_, _)
KickScanMirrored(t, offsets) ==
  IF offsets = << >> THEN << >>
  ELSE IF isValidMove(t, t.currentPosition.x - Head(offsets), t.currentPosition.y)
    THEN << 0 - Head(offsets) >>
    ELSE KickScanMirrored(t, Tail(offsets))

\* the wall-kick loop of rotatePiece over the offsets left to try
RECURSIVE KickScan(_, _)
KickScan(t, offsets) ==
  IF offsets = << >> THEN << >>
  ELSE IF isValidMove(t, t.currentPosition.x + Head(offsets), t.currentPosition.y)
    THEN << Head(offsets) >>
    ELSE KickScan(t, Tail(offsets))

\* the mutant: a rotation that keeps the turned shape where the piece stands
rotatePieceNoCheck(t) ==
  IF t.currentPiece = NoPiece THEN t
  ELSE [t EXCEPT !.currentPiece.shape = rotate(t.currentPiece.shape),
                 !.kicked = TRUE]

\* rotatePiece
rotatePiece(t) ==
  IF t.currentPiece = NoPiece THEN t
  ELSE LET t1 == [t EXCEPT !.currentPiece.shape = rotate(t.currentPiece.shape)]
           k == KickScan(t1, <<0, 1, -1, 2, -2>>)
       IN IF k = << >> THEN t
          ELSE [t1 EXCEPT !.currentPosition.x = t.currentPosition.x + k[1],
                          !.kicked = TRUE]

\* the mutant: a descent that stops one row above the resting position
RECURSIVE DropScanShort(_)
DropScanShort(t) ==
  IF isValidMove(t, t.currentPosition.x, t.currentPosition.y + 2)
  THEN DropScanShort([t EXCEPT !.currentPosition.y = t.currentPosition.y + 1,
                               !.score = t.score + HardDropBonus,
                               !.dropped = t.dropped + 1])
  ELSE t

\* the while loop of hardDrop
RECURSIVE DropScan(_)
DropScan(t) ==
  IF isValidMove(t, t.currentPosition.x, t.currentPosition.y + 1)
  THEN DropScan([t EXCEPT !.currentPosition.y = t.currentPosition.y + 1,
                          !.score = t.score + HardDropBonus,
                          !.dropped = t.dropped + 1])
  ELSE t

\* the mutant: a hard drop that locks and spawns without clearing lines
hardDropNoClear(t, rnd) ==
  IF t.currentPiece = NoPiece THEN t
  ELSE spawnPiece(lockPiece(DropScan(t)), rnd)

\* hardDrop
hardDrop(t, rnd) ==
  IF t.currentPiece = NoPiece THEN t
  ELSE LockSequence(DropScan(t), rnd)

----------------------------------------------------------------------------
(* The browser's animation-frame queue.  Handles only matter by identity,  *)
(* so a new handle is the smallest one that is not pending.                *)

FreshHandle(pend) == CHOOSE h \in 1 .. (Cardinality(pend) + 1) :
                        h \notin pend /\ \A g \in 1 .. (h - 1) : g \in pend

\* this.gameLoop = requestAnimationFrame(this.update)
requestAnimationFrame(t) ==
  LET h == FreshHandle(t.pending)
  IN [t EXCEPT !.pending = t.pending \cup {h}, !.gameLoop = h]

\* the mutant: a start that leaves the drop interval as it was
startGameKeepInterval(t, now, rnd) ==
  LET t1 == [t EXCEPT !.gameStarted = TRUE, !.gameOver = FALSE, !.isPaused = FALSE,
                      !.score = 0, !.level = 1, !.lines = 0,
                      !.board = initializeBoard]
      t2 == [spawnPiece(t1, rnd) EXCEPT !.lastDropTime = now, !.startedAt = now]
  IN requestAnimationFrame(t2)

\* startGame at time now, the first piece drawn with rnd
startGame(t, now, rnd) ==
  LET t1 == [t EXCEPT !.gameStarted = TRUE, !.gameOver = FALSE, !.isPaused = FALSE,
                      !.score = 0, !.level = 1, !.lines = 0,
                      !.dropInterval = BaseInterval,
                      !.board = initializeBoard]
      t2 == [spawnPiece(t1, rnd) EXCEPT !.lastDropTime = now, !.startedAt = now]
  IN requestAnimationFrame(t2)

\* restartGame
restartGame(t, now, rnd) == [startGame(t, now, rnd) EXCEPT !.restarted = TRUE]

\* the mutant: a resume that leaves lastDropTime as it was
togglePauseKeepTimer(t, now) ==
  IF ~t.gameStarted \/ t.gameOver THEN t
  ELSE IF t.isPaused
    THEN requestAnimationFrame([t EXCEPT !.isPaused = FALSE, !.resumedAt = now])
    ELSE [t EXCEPT !.isPaused = TRUE]

\* togglePause at time now
togglePause(t, now) ==
  IF ~t.gameStarted \/ t.gameOver THEN t
  ELSE IF t.isPaused
    THEN requestAnimationFrame([t EXCEPT !.isPaused = FALSE, !.lastDropTime = now,
                                         !.resumedAt = now])
    ELSE [t EXCEPT !.isPaused = TRUE]

\* the mutant: a callback that goes on while paused
updateIgnoringPause(t, now, rnd) ==
  IF t.gameOver THEN t
  ELSE LET t1 == IF now - t.lastDropTime > t.dropInterval
                 THEN [movePiece(t, 0, 1, rnd) EXCEPT !.lastDropTime = now,
                                                      !.tickDrop = TRUE,
                                                      !.tickedAt = now]
                 ELSE t
       IN requestAnimationFrame(t1)

\* the mutant: a callback that does not request the next frame
updateNoReschedule(t, now, rnd) ==
  IF t.isPaused \/ t.gameOver THEN t
  ELSE IF now - t.lastDropTime > t.dropInterval
       THEN [movePiece(t, 0, 1, rnd) EXCEPT !.lastDropTime = now,
                                            !.tickDrop = TRUE,
                                            !.tickedAt = now]
       ELSE t

\* update: one run of the animation-frame callback at time now
update(t, now, rnd) ==
  IF t.isPaused \/ t.gameOver THEN t
  ELSE LET t1 == IF now - t.lastDropTime > t.dropInterval
                 THEN [movePiece(t, 0, 1, rnd) EXCEPT !.lastDropTime = now,
                                                      !.tickDrop = TRUE,
                                                      !.tickedAt = now]
                 ELSE t
       IN requestAnimationFrame(t1)

Keys == {"ArrowLeft", "ArrowRight", "ArrowDown", "ArrowUp", " ", "p", "P", "x"}

\* the mutant: a handler that lets the game keys through after the game ended
handleKeyPressNoOverGuard(t, key, now, rnd) ==
  IF ~t.gameStarted /\ ~t.gameOver
  THEN IF key = " " THEN startGame(t, now, rnd) ELSE t
  ELSE IF t.gameOver /\ key = " " THEN restartGame(t, now, rnd)
  ELSE IF key = "p" \/ key = "P" THEN togglePause(t, now)
  ELSE IF t.isPaused THEN t
  ELSE CASE key = "ArrowLeft" -> movePiece(t, -1, 0, rnd)
         [] key = "ArrowRight" -> movePiece(t, 1, 0, rnd)
         [] key = "ArrowDown" -> movePiece(t, 0, 1, rnd)
         [] key = "ArrowUp" -> rotatePiece(t)
         [] key = " " -> hardDrop(t, rnd)
         [] OTHER -> t

\* the mutant: a handler that lets the game keys through while paused
handleKeyPressNoPauseGuard(t, key, now, rnd) ==
  IF ~t.gameStarted /\ ~t.gameOver
  THEN IF key = " " THEN startGame(t, now, rnd) ELSE t
  ELSE IF t.gameOver /\ key = " " THEN restartGame(t, now, rnd)
  ELSE IF ~t.gameStarted \/ t.gameOver THEN t
  ELSE IF key = "p" \/ key = "P" THEN togglePause(t, now)
  ELSE CASE key = "ArrowLeft" -> movePiece(t, -1, 0, rnd)
         [] key = "ArrowRight" -> movePiece(t, 1, 0, rnd)
         [] key = "ArrowDown" -> movePiece(t, 0, 1, rnd)
         [] key = "ArrowUp" -> rotatePiece(t)
         [] key = " " -> hardDrop(t, rnd)
         [] OTHER -> t

\* handleKeyPress for the key event.key at time now
handleKeyPress(t, key, now, rnd) ==
  IF ~t.gameStarted /\ ~t.gameOver
  THEN IF key = " " THEN startGame(t, now, rnd) ELSE t
  ELSE IF t.gameOver /\ key = " " THEN restartGame(t, now, rnd)
  ELSE IF ~t.gameStarted \/ t.gameOver THEN t
  ELSE IF key = "p" \/ key = "P" THEN togglePause(t, now)
  ELSE IF t.isPaused THEN t
  ELSE CASE key = "ArrowLeft" -> movePiece(t, -1, 0, rnd)
         [] key = "ArrowRight" -> movePiece(t, 1, 0, rnd)
         [] key = "ArrowDown" -> movePiece(t, 0, 1, rnd)
         [] key = "ArrowUp" -> rotatePiece(t)
         [] key = " " -> hardDrop(t, rnd)
         [] OTHER -> t

\* ngOnDestroy: removeEventListener; cancelAnimationFrame(gameLoop) if set
ngOnDestroy(t) ==
  [t EXCEPT !.listener = FALSE,
            !.pending = IF t.gameLoop # NoHandle THEN t.pending \ {t.gameLoop}
                        ELSE t.pending]

\* the fields after the constructor and ngOnInit, with localStorage's item
\* 'tetrisHighScore' being item (NoItem: getItem returns null; else << s >>)
ngOnInit(item) ==
  [board |-> initializeBoard,
   currentPiece |-> NoPiece,
   currentPosition |-> [x |-> 0, y |-> 0],
   dropInterval |-> BaseInterval,
   lastDropTime |-> 0,
   score |-> 0,
   level |-> 1,
   lines |-> 0,
   highScore |-> IF item # NoItem /\ item[1] # << >> THEN ParseInt(item[1]) ELSE 0,
   gameStarted |-> FALSE,
   gameOver |-> FALSE,
   isPaused |-> FALSE,
   gameLoop |-> NoHandle,
   pending |-> {},
   storage |-> item,
   listener |-> TRUE,
   locked |-> FALSE,
   lockAt |-> NoPos,
   spawned |-> FALSE,
   tickDrop |-> FALSE,
   ret |-> 0,
   dropped |-> 0,
   blocked |-> FALSE,
   kicked |-> FALSE, restarted |-> FALSE, key |-> "",
   startedAt |-> Never,
   resumedAt |-> Never,
   tickedAt |-> Never]

----------------------------------------------------------------------------
(* State: the component's fields, the browser objects, and history.        *)

VARIABLES
  board,            \* this.board
  currentPiece,     \* this.currentPiece (NoPiece before the first spawn)
  currentPosition,  \* this.currentPosition
  dropInterval,     \* this.dropInterval
  lastDropTime,     \* this.lastDropTime
  score, level, lines, highScore,      \* the signals
  gameStarted, gameOver, isPaused,     \* the status signals
  gameLoop,         \* this.gameLoop: the last handle requestAnimationFrame gave
  pending,          \* the browser's pending animation-frame callbacks
  storage,          \* localStorage's item 'tetrisHighScore'
  listener,         \* whether handleKeyPress is registered for keydown
  now,              \* what Date.now() returns
  destroyed,        \* history: ngOnDestroy has run
  nkeys,            \* history: key events delivered so far
  hist,             \* history of the last step: locked, lockAt, spawned, tickDrop,
                    \* ret (clearLines' result), dropped (rows of a hard drop),
                    \* blocked (a move that was refused and did not lock),
                    \* kicked (rotatePiece's local of that name),
                    \* restarted (restartGame was called),
                    \* key (event.key of the keydown event the step handled)
  marks,            \* history: when the game last started, resumed, tried a tick drop
  probe             \* the last call of a function applied on its own

fields == <<board, currentPiece, currentPosition, dropInterval, lastDropTime,
            score, level, lines, highScore, gameStarted, gameOver, isPaused,
            gameLoop, pending, storage, listener>>

vars == <<board, currentPiece, currentPosition, dropInterval, lastDropTime,
          score, level, lines, highScore, gameStarted, gameOver, isPaused,
          gameLoop, pending, storage, listener, now, destroyed, nkeys, hist,
          marks, probe>>

\* the fields as one record, the history of the last step cleared
Self ==
  [board |-> board, currentPiece |-> currentPiece,
   currentPosition |-> currentPosition, dropInterval |-> dropInterval,
   lastDropTime |-> lastDropTime, score |-> score, level |-> level,
   lines |-> lines, highScore |-> highScore, gameStarted |-> gameStarted,
   gameOver |-> gameOver, isPaused |-> isPaused, gameLoop |-> gameLoop,
   pending |-> pending, storage |-> storage, listener |-> listener,
   locked |-> FALSE, lockAt |-> NoPos, spawned |-> FALSE,
   tickDrop |-> FALSE, ret |-> 0, dropped |-> 0, blocked |-> FALSE,
   kicked |-> FALSE, restarted |-> FALSE, key |-> "",
   startedAt |-> marks.startedAt, resumedAt |-> marks.resumedAt,
   tickedAt |-> marks.tickedAt]

HistOf(t) == [locked |-> t.locked, lockAt |-> t.lockAt, spawned |-> t.spawned,
              tickDrop |-> t.tickDrop, ret |-> t.ret, dropped |-> t.dropped,
              blocked |-> t.blocked, kicked |-> t.kicked,
              restarted |-> t.restarted, key |-> t.key]

MarksOf(t) == [startedAt |-> t.startedAt, resumedAt |-> t.resumedAt,
               tickedAt |-> t.tickedAt]

NoHist == [locked |-> FALSE, lockAt |-> NoPos, spawned |-> FALSE,
   tickDrop |-> FALSE, ret |-> 0, dropped |-> 0, blocked |-> FALSE,
   kicked |-> FALSE, restarted |-> FALSE, key |-> ""]

\* the fields are those of record t
Is(t) ==
  /\ board = t.board
  /\ currentPiece = t.currentPiece
  /\ currentPosition = t.currentPosition
  /\ dropInterval = t.dropInterval
  /\ lastDropTime = t.lastDropTime
  /\ score = t.score
  /\ level = t.level
  /\ lines = t.lines
  /\ highScore = t.highScore
  /\ gameStarted = t.gameStarted
  /\ gameOver = t.gameOver
  /\ isPaused = t.isPaused
  /\ gameLoop = t.gameLoop
  /\ pending = t.pending
  /\ storage = t.storage
  /\ listener = t.listener
  /\ hist = HistOf(t)
  /\ marks = MarksOf(t)

\* the fields become those of record t
Commit(t) ==
  /\ board' = t.board
  /\ currentPiece' = t.currentPiece
  /\ currentPosition' = t.currentPosition
  /\ dropInterval' = t.dropInterval
  /\ lastDropTime' = t.lastDropTime
  /\ score' = t.score
  /\ level' = t.level
  /\ lines' = t.lines
  /\ highScore' = t.highScore
  /\ gameStarted' = t.gameStarted
  /\ gameOver' = t.gameOver
  /\ isPaused' = t.isPaused
  /\ gameLoop' = t.gameLoop
  /\ pending' = t.pending
  /\ storage' = t.storage
  /\ listener' = t.listener
  /\ hist' = HistOf(t)
  /\ marks' = MarksOf(t)

ClearHist(t) == [t EXCEPT !.locked = FALSE, !.lockAt = NoPos, !.spawned = FALSE,
                          !.tickDrop = FALSE, !.ret = 0, !.dropped = 0,
                          !.blocked = FALSE, !.kicked = FALSE,
                          !.restarted = FALSE, !.key = ""]

----------------------------------------------------------------------------
(* Actions: one per event the browser delivers.                            *)

\* a keydown event with event.key = key reaches handleKeyPress; the random
\* index is drawn from all of RandomIndex (it only matters when a piece spawns)
KeyDownOf(key) ==
  /\ listener
  /\ nkeys < MaxKeys
  /\ LET t0 == handleKeyPress(Self, key, now, 0)
     IN IF t0.spawned
        THEN \E rnd \in RandomIndex :
               LET t == handleKeyPress(Self, key, now, rnd)
               IN /\ Cardinality(t.pending) <= MaxPending
                  /\ Commit([t EXCEPT !.key = key])
        ELSE /\ Cardinality(t0.pending) <= MaxPending
             /\ Commit([t0 EXCEPT !.key = key])
  /\ nkeys' = nkeys + 1
  /\ UNCHANGED <<now, destroyed, probe>>

KeyDown == \E key \in Keys : KeyDownOf(key)

\* the callbacks of one animation frame, run one after the other
RECURSIVE RunCallbacks(_, _, _, _)
RunCallbacks(t, n, time, rnd) ==
  IF n = 0 THEN t
  ELSE RunCallbacks(update(t, time, rnd), n - 1, time, rnd)

\* an animation frame: the browser takes the pending callbacks and runs them
\* (at most one of them finds the drop due, so one random index serves)
AnimationFrame ==
  /\ pending # {}
  /\ LET t0 == RunCallbacks([Self EXCEPT !.pending = {}],
                             Cardinality(pending), now, 0)
     IN IF t0.spawned
        THEN \E rnd \in RandomIndex :
               Commit(RunCallbacks([Self EXCEPT !.pending = {}],
                                   Cardinality(pending), now, rnd))
        ELSE Commit(t0)
  /\ UNCHANGED <<now, destroyed, nkeys, probe>>

\* the clock moves on, by exactly the drop interval or by a millisecond more
TimeSteps == {dropInterval, dropInterval + 1}

AdvanceTime ==
  /\ \E dt \in TimeSteps :
       /\ now + dt <= MaxTimeSteps * (dropInterval + 1)
       /\ now' = now + dt
  /\ hist' = NoHist
  /\ UNCHANGED <<board, currentPiece, currentPosition, dropInterval,
                 lastDropTime, score, level, lines, highScore, gameStarted,
                 gameOver, isPaused, gameLoop, pending, storage, listener,
                 destroyed, nkeys, marks, probe>>

\* the component is torn down
NgOnDestroy ==
  /\ ~destroyed
  /\ Commit(ngOnDestroy(Self))
  /\ destroyed' = TRUE
  /\ UNCHANGED <<now, nkeys, probe>>

Next == KeyDown \/ AnimationFrame \/ AdvanceTime \/ NgOnDestroy

----------------------------------------------------------------------------
(* Initial states: the component as constructed, and states of a game in   *)
(* progress.  Each of the latter is computed by running handleKeyPress on  *)
(* a script of key events from the constructed component, so it is a state *)
(* the program reaches.  All events of a script happen at time 0, before   *)
(* the first animation frame.                                              *)

\* what localStorage may hold when the component is created: nothing, or
\* what an earlier session wrote
StoredItems == {NoItem, << toString(120) >>}

\* ArrowDown until the piece locks; rnd draws the piece that follows
RECURSIVE SoftDropToLock(_, _)
SoftDropToLock(t, rnd) ==
  CHOOSE r \in { IF u.locked THEN u ELSE SoftDropToLock(u, rnd) :
                   u \in {handleKeyPress(ClearHist(t), "ArrowDown", 0, rnd)} } : TRUE

\* a script is a sequence of <<key, n>>: key pressed n times, or for the key
\* "lock": ArrowDown until the piece locks, the next piece being n
RECURSIVE PressTimes(_, _, _)
PressTimes(t, key, n) ==
  IF n = 0 THEN t
  ELSE CHOOSE r \in { PressTimes(u, key, n - 1) :
                        u \in {handleKeyPress(ClearHist(t), key, 0, 0)} } : TRUE

RECURSIVE Replay(_, _)
Replay(t, script) ==
  IF script = << >> THEN t
  ELSE CHOOSE r \in { Replay(u, Tail(script)) :
                        u \in { IF Head(script)[1] = "lock"
                                THEN SoftDropToLock(t, Head(script)[2])
                                ELSE PressTimes(t, Head(script)[1], Head(script)[2]) } } : TRUE

\* the script run n times over
RECURSIVE ReplayTimes(_, _, _)
ReplayTimes(t, script, n) ==
  IF n = 0 THEN t
  ELSE CHOOSE r \in { ReplayTimes(u, script, n - 1) : u \in {Replay(t, script)} } : TRUE

\* m times over, the script run n times over
RECURSIVE ReplayBlocks(_, _, _, _)
ReplayBlocks(t, script, n, m) ==
  IF m = 0 THEN t
  ELSE CHOOSE r \in { ReplayBlocks(u, script, n, m - 1) :
                        u \in {ReplayTimes(t, script, n)} } : TRUE

RECURSIVE Times(_, _)
Times(script, n) == IF n = 0 THEN << >> ELSE script \o Times(script, n - 1)

\* piece indices in the catalog
PieceI == 0
PieceO == 3
PieceT == 5

\* space starts the game; the first piece is an I
StartI == << <<" ", 1>> >>

\* an I laid flat in columns 0..3, then one in columns 4..7
FlatLeft(next) == << <<"ArrowLeft", 3>>, <<"lock", next>> >>
FlatMid(next) == << <<"ArrowRight", 1>>, <<"lock", next>> >>
\* an O in columns 8..9
SquareRight(next) == << <<"ArrowRight", 4>>, <<"lock", next>> >>
\* an I stood upright in column 5
Upright(next) == << <<"ArrowUp", 1>>, <<"lock", next>> >>

\* five pieces that clear two rows and leave the board empty
TwoRows == FlatLeft(PieceI) \o FlatMid(PieceO) \o SquareRight(PieceI)
           \o FlatLeft(PieceI) \o FlatMid(PieceI)

\* a game just started
ScriptStarted == StartI
\* a game started and paused before its first animation frame
ScriptPaused == StartI \o << <<"p", 1>> >>
\* four upright I pieces stacked in column 5 (rows 4..19 of it are filled),
\* the fifth turned upright above them
ScriptTower == StartI \o Times(Upright(PieceI), 4) \o << <<"ArrowUp", 1>> >>
\* ten rows cleared (level 2), then the tower, and the fifth dropped onto
\* it: the sixth cannot spawn, the game is over
Over ==
  Replay(ReplayTimes(Replay(ngOnInit(NoItem), StartI), TwoRows, 5),
         Times(Upright(PieceI), 4) \o << <<"ArrowUp", 1>>, <<" ", 1>> >>)
\* the same tower with a T spawned above it
ScriptTowerT == StartI \o Times(Upright(PieceI), 3) \o Upright(PieceT)
\* rows 18 and 19 filled but for columns 4..7 of row 19, an I above the gap
LastGap == FlatLeft(PieceI) \o FlatMid(PieceO) \o SquareRight(PieceI)
           \o FlatLeft(PieceI) \o << <<"ArrowRight", 1>> >>
\* nine rows cleared, the tenth one drop away
NineLines ==
  Replay(ReplayTimes(Replay(ngOnInit(NoItem), StartI), TwoRows, 4), LastGap)
\* ninety-nine rows cleared (level 10), the hundredth one drop away
NinetyNineLines ==
  Replay(ReplayBlocks(Replay(ngOnInit(NoItem), StartI), TwoRows, 7, 7), LastGap)
\* no row cleared yet, row 19 filled but for columns 8..9, an O above the
\* gap, against the right wall
ScriptFirstLine == StartI \o FlatLeft(PieceI) \o FlatMid(PieceO)
                   \o << <<"ArrowRight", 4>> >>
\* rows 16..19 filled but for column 9, an upright I above the gap
ScriptFourRows == StartI \o Times(FlatLeft(PieceI), 4) \o Times(FlatMid(PieceI), 4)
                  \o << <<"ArrowUp", 1>>, <<"ArrowRight", 3>>, <<"lock", PieceI>>,
                        <<"ArrowUp", 1>>, <<"ArrowRight", 4>> >>
\* a T resting on the floor, not yet locked
ScriptResting == StartI \o FlatLeft(PieceT) \o << <<"ArrowDown", 18>> >>

Snapshots ==
  { Replay(ngOnInit(NoItem), ScriptStarted),
    Replay(ngOnInit(NoItem), ScriptPaused),
    Replay(ngOnInit(NoItem), ScriptTower),
    Over,
    Replay(ngOnInit(NoItem), ScriptTowerT),
    NineLines,
    NinetyNineLines,
    Replay(ngOnInit(<< toString(120) >>), ScriptFirstLine),
    Replay(ngOnInit(NoItem), ScriptFourRows),
    Replay(ngOnInit(<< toString(120) >>), ScriptResting) }

InitWith(t) ==
  /\ Is(ClearHist(t))
  /\ now = 0
  /\ destroyed = FALSE
  /\ nkeys = 0
  /\ probe = NoProbe

\* after construction and ngOnInit
Init == \E item \in StoredItems : InitWith(ngOnInit(item))

\* the constructed component, or a game in progress
InitPlay == Init \/ \E t \in Snapshots : InitWith(t)

Spec == Init /\ [][Next]_vars

SpecPlay == InitPlay /\ [][Next]_vars

----------------------------------------------------------------------------
(* isValidMove and clearLines applied on their own, to inputs drawn from   *)
(* bounded sets: a running game whose board and piece are replaced.        *)

Running == Replay(ngOnInit(NoItem), ScriptStarted)

RECURSIVE Rotated(_, _)
Rotated(shape, n) == IF n = 0 THEN shape ELSE Rotated(rotate(shape), n - 1)

\* the seven pieces in their four orientations
Orientations ==
  { [shape |-> Rotated(tetrominoes[i].shape, n), color |-> tetrominoes[i].color] :
      i \in 1 .. Len(tetrominoes), n \in 0 .. 3 }

\* boards to ask about: empty, the tower of column 5, blocks on every other
\* cell below row 2, and a filled top row
ProbeBoards ==
  { initializeBoard,
    Replay(ngOnInit(NoItem), ScriptTower).board,
    [r \in 1 .. rows |-> [c \in 1 .. cols |->
       IF r > 2 /\ (r + c) % 2 = 0 THEN "#f00000" ELSE ""]],
    [r \in 1 .. rows |-> [c \in 1 .. cols |->
       IF r = 1 THEN "#00f000" ELSE ""]] }

InitValid ==
  \E b \in ProbeBoards, piece \in Orientations :
    InitWith([Running EXCEPT !.board = b, !.currentPiece = piece])

\* isValidMove(x, y) is called and its result kept
ProbeValid ==
  /\ probe = NoProbe
  /\ \E x \in (0 - ProbeMargin) .. (cols + ProbeMargin),
        y \in (0 - ProbeMargin) .. (rows + ProbeMargin) :
       probe' = [NoProbe EXCEPT !.fn = "isValidMove", !.x = x, !.y = y,
                                !.res = isValidMove(Self, x, y)]
  /\ UNCHANGED <<board, currentPiece, currentPosition, dropInterval,
                 lastDropTime, score, level, lines, highScore, gameStarted,
                 gameOver, isPaused, gameLoop, pending, storage, listener,
                 now, destroyed, nkeys, hist, marks>>

NextValid == ProbeValid

SpecValid == InitValid /\ [][NextValid]_vars

\* the sets of at most k row indices
RECURSIVE RowSets(_)
RowSets(k) ==
  IF k = 0 THEN {{}}
  ELSE LET S == RowSets(k - 1)
       IN S \cup { x \cup {r} : x \in S, r \in 0 .. (rows - 1) }

\* a row that is not full and differs from every other row: its cells spell
\* the row's number in binary; a full row; the board whose full rows are F
PartialRow(r) ==
  [c \in 1 .. cols |-> IF ((r + 1) \div (2 ^ (c - 1))) % 2 = 1 THEN "#0000f0" ELSE ""]
FullRow == [c \in 1 .. cols |-> "#f0a000"]
BoardWithFull(F, emptyAbove) ==
  [r \in 1 .. rows |-> IF (r - 1) \in F THEN FullRow
                       ELSE IF r - 1 < emptyAbove THEN EmptyRow
                       ELSE PartialRow(r - 1)]

InitClear ==
  \E F \in RowSets(MaxFull), emptyAbove \in {0, rows \div 2} :
    InitWith([Running EXCEPT !.board = BoardWithFull(F, emptyAbove)])

\* clearLines() is called and its result kept
ApplyClearLines ==
  /\ probe = NoProbe
  /\ LET t == clearLines(Self)
     IN /\ Commit(t)
        /\ probe' = [NoProbe EXCEPT !.fn = "clearLines", !.input = board,
                                    !.ret = t.ret]
  /\ UNCHANGED <<now, destroyed, nkeys>>

NextClear == ApplyClearLines

SpecClear == InitClear /\ [][NextClear]_vars

\* scores and high scores to start from: nothing yet, and a score one clear
\* away from a high score
ProbeScores == {<<0, 0>>, <<950, 1000>>}

InitScore ==
  \E L \in 1 .. MaxLevel, p \in ProbeScores :
    InitWith([Running EXCEPT !.level = L, !.score = p[1], !.highScore = p[2]])

\* updateScore(linesCleared) is called; the score before it is kept
ApplyUpdateScore ==
  /\ probe = NoProbe
  /\ \E n \in 0 .. MaxCleared :
       /\ Commit(updateScore(Self, n))
       /\ probe' = [NoProbe EXCEPT !.fn = "updateScore", !.x = n, !.ret = score]
  /\ UNCHANGED <<now, destroyed, nkeys>>

NextScore == ApplyUpdateScore

SpecScore == InitScore /\ [][NextScore]_vars

\* a running game with any of the boards, any piece in any orientation, at
\* any anchor where the code finds it placed validly
ProbeAnchors == ((0 - ProbeMargin) .. cols) \X {0, rows \div 2, rows - 4}

InitRotate ==
  \E b \in ProbeBoards, piece \in Orientations, a \in ProbeAnchors :
    LET t == [Running EXCEPT !.board = b, !.currentPiece = piece,
                             !.currentPosition = [x |-> a[1], y |-> a[2]]]
    IN isValidMove(t, a[1], a[2]) /\ InitWith(t)

\* ArrowUp is pressed; the shape and the anchor before it are kept
PressRotate ==
  /\ probe = NoProbe
  /\ Commit(handleKeyPress(Self, "ArrowUp", now, 0))
  /\ probe' = [NoProbe EXCEPT !.fn = "rotatePiece", !.input = currentPiece.shape,
                              !.x = currentPosition.x, !.y = currentPosition.y]
  /\ UNCHANGED <<now, destroyed, nkeys>>

NextRotate == PressRotate

SpecRotate == InitRotate /\ [][NextRotate]_vars

\* a running game with any of the boards and any catalog piece where it
\* spawns, if the code finds it placed validly there
InitTurn ==
  \E b \in ProbeBoards, i \in 1 .. Len(tetrominoes) :
    LET piece == tetrominoes[i]
        t == [Running EXCEPT !.board = b, !.currentPiece = piece,
                             !.currentPosition = [x |-> SpawnX(piece.shape), y |-> 0]]
    IN /\ isValidMove(t, t.currentPosition.x, 0)
       /\ Is(ClearHist(t))
       /\ now = 0 /\ destroyed = FALSE /\ nkeys = 0
       /\ probe = [NoProbe EXCEPT !.fn = "turn", !.input = piece.shape,
                                  !.x = t.currentPosition.x]

\* ArrowUp is pressed; probe.ret counts the rotations that were committed
Turn ==
  /\ probe.fn = "turn"
  /\ probe.ret < MaxTurns
  /\ LET t == handleKeyPress(Self, "ArrowUp", now, 0)
     IN /\ Commit(t)
        /\ probe' = [probe EXCEPT !.ret = IF t.kicked THEN @ + 1 ELSE @]
  /\ UNCHANGED <<now, destroyed, nkeys>>

\* the piece is moved between rotations, without locking
Shift ==
  /\ probe.fn = "turn"
  /\ nkeys < MaxShifts
  /\ \E key \in {"ArrowLeft", "ArrowRight", "ArrowDown"} :
       LET t == handleKeyPress(Self, key, now, 0)
       IN ~t.locked /\ Commit(t)
  /\ nkeys' = nkeys + 1
  /\ UNCHANGED <<now, destroyed, probe>>

NextTurn == Turn \/ Shift

SpecTurn == InitTurn /\ [][NextTurn]_vars

----------------------------------------------------------------------------
(* The life of one piece: a running, unpaused game in which the user       *)
(* presses only the keys for left, right and rotate, as often as they      *)
(* like, while the browser keeps running animation frames and the clock    *)
(* keeps going.  The behaviour ends with the step that locks the piece.    *)

FallKeys == {"ArrowLeft", "ArrowRight", "ArrowUp"}

\* ArrowDown pressed up to n times, as long as the piece can go down
RECURSIVE LowerBy(_, _)
LowerBy(t, n) ==
  IF n = 0 \/ ~isValidMove(t, t.currentPosition.x, t.currentPosition.y + 1)
  THEN t
  ELSE LowerBy(handleKeyPress(t, "ArrowDown", 0, 0), n - 1)

\* the games the piece's life is followed in: a game just started with any
\* of the pieces, and the games in progress with low stacks
FallGames ==
  { startGame(ngOnInit(NoItem), 0, rnd) : rnd \in RandomIndex } \cup
  { Replay(ngOnInit(<< toString(120) >>), ScriptFirstLine),
    Replay(ngOnInit(NoItem), ScriptFourRows),
    NineLines }

\* the piece has been brought down to MaxFallRows rows above the lowest
\* anchor row, or to where it rests
InitFall ==
  \E t \in FallGames : InitWith(LowerBy(t, rows - 2 - MaxFallRows))

\* a keydown event for one of the three keys
FallKeyDown ==
  /\ ~hist.locked
  /\ \E key \in FallKeys :
       Commit([handleKeyPress(Self, key, now, 0) EXCEPT !.key = key])
  /\ UNCHANGED <<now, destroyed, nkeys, probe>>

\* an animation frame
FallFrame == ~hist.locked /\ AnimationFrame

\* the clock moves on; a frame runs before it moves past a drop that is due
FallTime ==
  /\ ~hist.locked
  /\ now - lastDropTime <= dropInterval
  /\ \E dt \in TimeSteps : now' = now + dt
  /\ hist' = NoHist
  /\ UNCHANGED <<board, currentPiece, currentPosition, dropInterval,
                 lastDropTime, score, level, lines, highScore, gameStarted,
                 gameOver, isPaused, gameLoop, pending, storage, listener,
                 destroyed, nkeys, marks, probe>>

NextFall == FallKeyDown \/ FallFrame \/ FallTime

\* the frame in which update finds the drop due: of the steps of NextFall
\* it is the one that sets lastDropTime to the time of the frame.  The first
\* disjunct is no step of NextFall; it only makes the three guards the
\* enabling condition, which they are for the frame as well, since a due
\* frame with a callback pending always changes lastDropTime.
DueFrame ==
  /\ ~hist.locked
  /\ pending # {}
  /\ now - lastDropTime > dropInterval
  /\ lastDropTime' = now
  /\ \/ UNCHANGED <<board, currentPiece, currentPosition, dropInterval, score,
                    level, lines, highScore, gameStarted, gameOver, isPaused,
                    gameLoop, pending, storage, listener, now, destroyed,
                    nkeys, hist, marks, probe>>
     \/ FallFrame

\* the browser keeps calling the pending callback and the clock keeps going
SpecFall ==
  InitFall /\ [][NextFall]_vars /\ WF_vars(DueFrame) /\ WF_vars(FallTime)

----------------------------------------------------------------------------
(* Claims                                                                  *)

\* C1: in every reachable state the high score is at least the current
\* score (every operation that raises the score above the stored high score
\* replaces the high score in that same step).
HighScoreAtLeastScore == highScore >= score

\* C2: once ngOnDestroy has run, no step modifies the board, the active
\* piece, its anchor or the counters (no tick callback runs any more and no
\* key event is handled).
NoChangeAfterDestroy ==
  [][destroyed => UNCHANGED <<board, currentPiece, currentPosition, score,
                              lines, level>>]_vars

\* the placement check as the specification words it: every filled cell of
\* the shape is inside the columns, above the floor and, when on the board,
\* on an empty cell
FilledCells(shape) ==
  {c \in (0 .. Len(shape) - 1) \X (0 .. Len(shape) - 1) : At(shape, c[1], c[2]) # 0}

PlacementValid(b, shape, x, y) ==
  \A c \in FilledCells(shape) :
    /\ 0 <= x + c[2]
    /\ x + c[2] < cols
    /\ y + c[1] < rows
    /\ (y + c[1] >= 0 => At(b, y + c[1], x + c[2]) = "")

\* the board with the cells under the piece at anchor p tagged with its color
BoardWithPiece(b, piece, p) ==
  [r \in 1 .. rows |-> [c \in 1 .. cols |->
     IF <<r - 1 - p.y, c - 1 - p.x>> \in FilledCells(piece.shape)
     THEN piece.color ELSE b[r][c]]]

\* the board without its full rows, empty rows put on top in their place
NotFull(line) == \E c \in 1 .. cols : line[c] = ""
WithoutFullRows(b) ==
  LET kept == SelectSeq(b, NotFull)
  IN [r \in 1 .. (rows - Len(kept)) |-> EmptyRow] \o kept

GameKeys == {"ArrowLeft", "ArrowRight", "ArrowDown", "ArrowUp", " "}
PauseKeys == {"p", "P"}

\* C3: the status becomes GameOver exactly when a newly spawned piece's
\* starting placement (centered x, y = 0) is invalid on the board: every
\* spawn leaves the piece at the centered anchor and sets GameOver in the same
\* step iff that placement is invalid, and a step without a spawn never sets
\* GameOver.
GameOverOnlyByInvalidSpawn ==
  [][/\ hist'.spawned =>
          /\ currentPosition' =
               [x |-> (cols \div 2) - (Len(currentPiece'.shape) \div 2), y |-> 0]
          /\ gameOver' <=> ~PlacementValid(board', currentPiece'.shape,
                                           currentPosition'.x, 0)
          /\ gameOver' => ~gameStarted'
     /\ ~hist'.spawned => (gameOver' => gameOver)
     /\ (gameOver /\ hist'.spawned) => ~gameOver']_vars

\* a lock was followed by a spawn onto occupied cells, which ended the game
GameOverReached == gameOver /\ ~gameStarted /\ hist.spawned /\ hist.locked

\* C4: GameOver is absorbing except for restart: in GameOver, ticks and
\* the keys for moveLeft, moveRight, softDrop, rotate and pause leave board,
\* active piece, anchor, score, lines, level and status unchanged; a step
\* that leaves GameOver is a press of space and ends in Running.
StatusAndGame == <<board, currentPiece, currentPosition, score, lines, level,
                   gameStarted, gameOver, isPaused>>

GameOverAbsorbing ==
  [][gameOver =>
       /\ (AnimationFrame \/ \E k \in Keys \ {" "} : KeyDownOf(k))
            => UNCHANGED StatusAndGame
       /\ ~gameOver' => (KeyDownOf(" ") /\ gameStarted' /\ ~isPaused')
       /\ gameOver' => UNCHANGED StatusAndGame]_vars

\* a GameOver state produced by a step taken in GameOver
SteppedInGameOver == gameOver /\ ~hist.spawned /\ nkeys > 0

\* C6: a piece locks only where it cannot descend: a lock happens at an
\* anchor (x, y) whose placement (x, y+1) is invalid, tags exactly the board
\* cells under the piece's filled cells at (x, y) with its color (then full
\* rows go), and a soft drop or tick whose target placement is valid does
\* not lock.
LockOnlyWhereBlocked ==
  [][/\ hist'.locked =>
          /\ ~PlacementValid(board, currentPiece.shape,
                             hist'.lockAt.x, hist'.lockAt.y + 1)
          /\ hist'.lockAt.x = currentPosition.x
          /\ hist'.lockAt.y >= currentPosition.y
          /\ board' = WithoutFullRows(BoardWithPiece(board, currentPiece, hist'.lockAt))
     /\ ( /\ KeyDownOf("ArrowDown") \/ AnimationFrame
          /\ currentPiece # NoPiece
          /\ PlacementValid(board, currentPiece.shape,
                            currentPosition.x, currentPosition.y + 1) )
          => (~hist'.locked /\ board' = board)]_vars

\* a piece has locked on top of other blocks, above the floor
LockedOnStack ==
  /\ hist.locked
  /\ hist.lockAt.y < rows - 4
  /\ gameStarted

\* C8: while the game is paused, ticks and the keys for moveLeft,
\* moveRight, softDrop, rotate and hardDrop change nothing (but the queue of
\* pending callbacks, for a tick); no step changes board, active piece,
\* anchor, score, lines, level or drop interval; and a step that ends the
\* pause is a press of the pause key and ends in Running.
PausedFrame == <<board, currentPiece, currentPosition, score, lines, level,
                 dropInterval>>

PausedChangesNothing ==
  [][(isPaused /\ gameStarted /\ ~gameOver) =>
       /\ UNCHANGED PausedFrame
       /\ (\E k \in GameKeys \cup {"x"} : KeyDownOf(k)) => UNCHANGED fields
       /\ AnimationFrame =>
            UNCHANGED <<lastDropTime, highScore, gameStarted, gameOver,
                        isPaused, gameLoop, storage, listener>>
       /\ ~isPaused' => ( /\ \E k \in PauseKeys : KeyDownOf(k)
                          /\ gameStarted' /\ ~gameOver' )]_vars

\* the game is paused, the tick that was pending has run, and the clock
\* has moved on
TickedWhilePaused ==
  isPaused /\ gameStarted /\ pending = {} /\ ~destroyed /\ now > lastDropTime + dropInterval

\* C9: a tick makes a descent attempt only when strictly more than
\* dropInterval has elapsed since the latest of the previous tick-driven
\* attempt, the game start and the last resume; the attempt moves the piece
\* down one row or locks it, and sets the drop timer to the current time.
LatestMark == Max2(marks.startedAt, Max2(marks.resumedAt, marks.tickedAt))

TickOnlyWhenDue ==
  [][/\ AnimationFrame =>
          (hist'.tickDrop \/ UNCHANGED <<board, currentPiece, currentPosition,
                                         lastDropTime, score, lines>>)
     /\ hist'.tickDrop =>
          /\ AnimationFrame
          /\ ~isPaused
          /\ now - LatestMark > dropInterval
          /\ lastDropTime' = now
          /\ \/ hist'.locked
             \/ /\ currentPosition' = [currentPosition EXCEPT !.y = @ + 1]
                /\ UNCHANGED <<board, currentPiece>>
     /\ marks'.startedAt # Never => lastDropTime' = LatestMark']_vars

\* a tick has made a descent attempt after the game was resumed
TickAfterResume == hist.tickDrop /\ marks.resumedAt # Never /\ lastDropTime > 0

\* C10: in every reachable state level = floor(lines / 10) + 1 and
\* dropInterval = max(100, 1000 - (level - 1) * 100).
LevelAndInterval ==
  /\ level = (lines \div 10) + 1
  /\ dropInterval = IF 1000 - (level - 1) * 100 > 100
                    THEN 1000 - (level - 1) * 100 ELSE 100

\* a line clear has raised the level to one whose interval is floored
LevelRaised == level = 11 /\ hist.ret > 0 /\ lines = 100 /\ dropInterval = 100

\* C5: isValidMove(x, y) returns true iff every filled cell (row, col) of
\* the active shape has 0 <= x+col < 10, y+row < 20 and, when y+row >= 0, an
\* empty board cell at (y+row, x+col); cells above the board are exempt from
\* the occupancy check but not from the column bounds.
IsValidMoveIffPlacementValid ==
  probe.fn = "isValidMove" =>
    (probe.res <=>
       \A row \in 0 .. (Len(currentPiece.shape) - 1),
          col \in 0 .. (Len(currentPiece.shape) - 1) :
         At(currentPiece.shape, row, col) # 0 =>
           /\ 0 <= probe.x + col
           /\ probe.x + col < 10
           /\ probe.y + row < 20
           /\ (probe.y + row >= 0 => At(board, probe.y + row, probe.x + col) = ""))

\* a placement with a filled cell above the board was found valid on a
\* board with blocks
ValidAboveTheBoard ==
  /\ probe.fn = "isValidMove"
  /\ probe.res
  /\ board # initializeBoard
  /\ \E c \in FilledCells(currentPiece.shape) : probe.y + c[1] < 0

\* C7: clearLines removes exactly the rows in which every cell is
\* non-empty, keeps the other rows in their order at the bottom, puts one
\* empty row on top per removed row (the board keeps 20 rows) and returns the
\* number of rows removed.
ClearLinesRemovesFullRows ==
  probe.fn = "clearLines" =>
    LET full == {r \in 1 .. 20 : \A c \in 1 .. 10 : probe.input[r][c] # ""}
        kept == SelectSeq(probe.input, NotFull)
        n == Cardinality(full)
    IN /\ probe.ret = n
       /\ Len(board) = 20
       /\ \A r \in 1 .. n : board[r] = EmptyRow
       /\ SubSeq(board, n + 1, 20) = kept

\* rows 3 and 7, not adjacent, were the full ones and both went
ClearedRowsThreeAndSeven ==
  /\ probe.fn = "clearLines"
  /\ {r \in 0 .. 19 : RowFull(probe.input[r + 1])} = {3, 7}
  /\ probe.ret = 2

\* C11: the score added for clearing n rows at once at level L is
\* table[n] * L with table = (0 -> 0, 1 -> 100, 2 -> 300, 3 -> 500, 4 -> 800),
\* and a count above 4 adds 0.
ScoreTable(n) ==
  CASE n = 1 -> 100 [] n = 2 -> 300 [] n = 3 -> 500 [] n = 4 -> 800 [] OTHER -> 0

ScoreDeltaIsTableTimesLevel ==
  probe.fn = "updateScore" => score - probe.ret = ScoreTable(probe.x) * level

\* five rows were scored, at a level above 1, and added nothing
ScoredFiveRows ==
  probe.fn = "updateScore" /\ probe.x = 5 /\ level > 1 /\ score = probe.ret

\* C12: hardDrop moves the active piece straight down by the largest
\* k >= 0 such that the placements at y+1 .. y+k are all valid, adds exactly
\* 2*k to the score for the descent, and in the same step locks the piece
\* there, clears the full rows, applies the line score and spawns the next
\* piece.  The line score is table[n] times the level the clear leaves.
DropDistance(b, shape, x, y) ==
  CHOOSE k \in 0 .. rows :
    /\ \A i \in 1 .. k : PlacementValid(b, shape, x, y + i)
    /\ ~PlacementValid(b, shape, x, y + k + 1)

HardDropToLowest ==
  [][(hist'.key = " " /\ gameStarted /\ ~gameOver /\ ~isPaused) =>
       LET k == DropDistance(board, currentPiece.shape,
                             currentPosition.x, currentPosition.y)
           landed == [x |-> currentPosition.x, y |-> currentPosition.y + k]
           locked == BoardWithPiece(board, currentPiece, landed)
           n == Cardinality({r \in 1 .. rows : ~NotFull(locked[r])})
       IN /\ hist'.dropped = k
          /\ hist'.locked /\ hist'.lockAt = landed
          /\ board' = WithoutFullRows(locked)
          /\ hist'.ret = n /\ lines' = lines + n
          /\ score' = score + 2 * k + ScoreTable(n) * level'
          /\ hist'.spawned
          /\ currentPosition' = [x |-> SpawnX(currentPiece'.shape), y |-> 0]]_vars

\* a hard drop took the piece down some rows onto other blocks, and the game
\* went on
HardDroppedOnStack ==
  /\ hist.dropped > 0
  /\ hist.locked
  /\ hist.lockAt.y < rows - 4
  /\ hist.spawned
  /\ gameStarted

\* C13: a rotate command tries the shape turned 90 degrees clockwise at
\* the x-offsets 0, +1, -1, +2, -2 in that order and commits the first whose
\* placement is valid (shape replaced, anchor.x shifted by the offset,
\* anchor.y unchanged); if none is valid, shape and anchor are what they
\* were; either way board and counters are unchanged.
Clockwise(m) ==
  [a \in 1 .. Len(m) |-> [b \in 1 .. Len(m) |-> m[Len(m) + 1 - b][a]]]

KickOrder == <<0, 1, -1, 2, -2>>

RotateKicksInOrder ==
  [][PressRotate =>
       LET turned == Clockwise(currentPiece.shape)
           fits == {i \in 1 .. 5 :
                      PlacementValid(board, turned, currentPosition.x + KickOrder[i],
                                     currentPosition.y)}
       IN /\ IF fits = {}
             THEN UNCHANGED <<currentPiece, currentPosition>>
             ELSE LET first == CHOOSE i \in fits : \A j \in fits : i <= j
                  IN /\ currentPiece' = [currentPiece EXCEPT !.shape = turned]
                     /\ currentPosition' =
                          [currentPosition EXCEPT !.x = @ + KickOrder[first]]
          /\ UNCHANGED <<board, score, lines, level, highScore, dropInterval,
                         gameStarted, gameOver, isPaused>>]_vars

\* a rotation was committed two columns to the left: the offsets 0, +1, -1
\* and +2 had all failed
KickedTwoLeft ==
  /\ probe.fn = "rotatePiece"
  /\ currentPosition.x = probe.x - 2
  /\ currentPiece.shape # probe.input

\* C14: a moveLeft or moveRight command whose target placement is invalid
\* leaves anchor, shape, board, counters and status unchanged and does not
\* lock the piece; one whose target placement is valid changes only
\* anchor.x, by exactly -1 or +1.
SideKeys == {<<"ArrowLeft", 0 - 1>>, <<"ArrowRight", 1>>}

SideMoveOnlyShiftsAnchor ==
  [][\A k \in SideKeys :
       (KeyDownOf(k[1]) /\ gameStarted /\ ~gameOver /\ ~isPaused) =>
         /\ IF PlacementValid(board, currentPiece.shape,
                              currentPosition.x + k[2], currentPosition.y)
            THEN currentPosition' = [currentPosition EXCEPT !.x = @ + k[2]]
            ELSE UNCHANGED currentPosition
         /\ ~hist'.locked /\ ~hist'.spawned
         /\ UNCHANGED <<board, currentPiece, dropInterval, lastDropTime, score,
                        level, lines, highScore, gameStarted, gameOver, isPaused,
                        gameLoop, pending, storage, listener>>]_vars

\* a sideways move was refused while the piece could still descend
SideMoveRefusedInTheAir ==
  /\ hist.blocked
  /\ gameStarted /\ ~isPaused
  /\ PlacementValid(board, currentPiece.shape, currentPosition.x, currentPosition.y + 1)

\* C15: for each of the seven tetromino shapes, four successful rotations
\* of the active piece with no lock in between leave its shape matrix
\* identical to the matrix before the first rotation.
FourRotationsRestoreShape ==
  (probe.fn = "turn" /\ probe.ret = 4) => currentPiece.shape = probe.input

\* four rotations were committed, of a piece that a single rotation
\* changes, and kicks or moves left it in another column
TurnedRoundElsewhere ==
  /\ probe.fn = "turn" /\ probe.ret = 4
  /\ rotate(probe.input) # probe.input
  /\ currentPosition.x # probe.x
  /\ board # initializeBoard

\* C16: after a start command in Idle or a restart command in GameOver
\* every board cell is empty, score = 0, lines = 0, level = 1,
\* dropInterval = 1000, the status is Running and not paused, the high score
\* is unchanged, and the active piece is one of the seven catalog shapes in
\* its canonical orientation at x = floor(10/2) - floor(width/2), y = 0, with
\* a valid placement (a start never ends in GameOver).
StartResetsTheGame ==
  [][(hist'.key = " " /\ ~gameStarted) =>
       /\ \A r \in 1 .. 20 : \A c \in 1 .. 10 : board'[r][c] = ""
       /\ score' = 0 /\ lines' = 0 /\ level' = 1 /\ dropInterval' = 1000
       /\ gameStarted' /\ ~gameOver' /\ ~isPaused'
       /\ highScore' = highScore
       /\ \E i \in 1 .. 7 : currentPiece' = tetrominoes[i]
       /\ currentPosition' = [x |-> 5 - (Len(currentPiece'.shape[1]) \div 2), y |-> 0]
       /\ PlacementValid(board', currentPiece'.shape, currentPosition'.x, 0)]_vars

\* a game that had reached level 2 and ended was restarted
RestartedAfterLevelTwo ==
  /\ hist.restarted
  /\ highScore >= 1000
  /\ level = 1 /\ score = 0

\* C17: the high score never decreases, is not reset by start or
\* restart, and changes only in a step where the current score is strictly
\* greater than the previous high score; it then becomes exactly that score
\* and the persisted value is written to the same number, so that the
\* persisted value, read back, equals the high score in memory.
HighScoreOnlyRises ==
  [][/\ highScore' >= highScore
     /\ highScore' # highScore =>
          /\ score' > highScore
          /\ highScore' = score'
          /\ storage' # NoItem
          /\ ParseInt(storage'[1]) = highScore'
     /\ highScore' = highScore => storage' = storage]_vars

\* a line clear after a hard drop took the score to 136, past the stored
\* high score of 120, and 136 was stored
StoredHighScoreBeaten ==
  /\ hist.ret > 0
  /\ score = 136 /\ highScore = 136
  /\ storage = << <<"1", "3", "6">> >>

\* C18: no single lock clears more than 4 rows: the count clearLines
\* returns is between 0 and 4 in every reachable execution (no board between
\* steps holds a full row, and a piece fills cells of at most 4 rows).
AtMostFourRowsCleared ==
  /\ hist.ret \in 0 .. 4
  /\ \A r \in 1 .. 20 : \E c \in 1 .. 10 : board[r][c] = ""

\* a lock cleared four rows at once
FourRowsCleared == hist.ret = 4 /\ hist.locked /\ lines = 4

\* C19: in the lock sequence the score is updated before lines and level:
\* when a lock clears n rows, the level multiplier applied to table[n] is the
\* level in effect when the piece locked (from the line total before this
\* clear), also when the clear takes the line total across a multiple of 10.
ScoreUsesLevelAtLock ==
  [][(hist'.locked /\ hist'.ret > 0) =>
       score' = score + 2 * hist'.dropped + ScoreTable(hist'.ret) * level]_vars

\* C20: at any time at most one tick callback is pending, and the stored
\* handle gameLoop refers to the only pending callback (also after a pause
\* followed by a resume, or a game over followed by a restart, before the
\* next frame fires).
AtMostOnePendingCallback ==
  /\ Cardinality(pending) <= 1
  /\ pending # {} => pending = {gameLoop}

\* C21: in every state whose status is Running or Paused the active
\* piece's placement at its anchor is valid: all its filled cells lie in
\* columns 0..9 and rows 0..19 (none at a negative row) and none coincides
\* with a non-empty board cell; the active piece overlaps locked cells only
\* in GameOver states.
CellsOfActivePiece ==
  {<<currentPosition.y + c[1], currentPosition.x + c[2]>> :
     c \in FilledCells(currentPiece.shape)}

ActivePieceOverlaps ==
  \E c \in CellsOfActivePiece :
    /\ c[1] \in 0 .. 19 /\ c[2] \in 0 .. 9
    /\ At(board, c[1], c[2]) # ""

ActivePieceValid ==
  /\ (gameStarted /\ ~gameOver) =>
       /\ currentPiece # NoPiece
       /\ \A c \in CellsOfActivePiece :
            /\ c[1] \in 0 .. 19 /\ c[2] \in 0 .. 9
            /\ At(board, c[1], c[2]) = ""
  /\ (currentPiece # NoPiece /\ ActivePieceOverlaps) => gameOver

\* a running game where the last key turned the piece and the turned piece
\* stands right beside or right above locked cells
TurnedNextToBlocks ==
  /\ gameStarted /\ ~gameOver
  /\ hist.kicked
  /\ \E c \in CellsOfActivePiece : \E d \in {<<0, 0 - 1>>, <<0, 1>>, <<1, 0>>} :
       /\ c[1] + d[1] \in 0 .. 19 /\ c[2] + d[2] \in 0 .. 9
       /\ At(board, c[1] + d[1], c[2] + d[2]) # ""

\* C22: after every completed event (key command or tick) the board has
\* exactly 20 rows of 10 cells and no row is completely filled: a full row
\* made by a lock is removed within the same step.
BoardShapeAndNoFullRow ==
  /\ Len(board) = 20
  /\ \A r \in 1 .. Len(board) :
       /\ Len(board[r]) = 10
       /\ \E c \in 1 .. 10 : board[r][c] = ""

\* the last step locked a piece that completed a row, and locked cells are
\* left on the board after the row went
LockCompletedARow ==
  /\ hist.locked
  /\ hist.ret > 0
  /\ \E r \in 1 .. 20 : \E c \in 1 .. 10 : board[r][c] # ""

\* C23: while the game stays running and unpaused and ticks keep
\* occurring with time advancing, every active piece eventually locks,
\* whatever left, right and rotate commands are interleaved: the anchor row
\* never decreases during a piece's life, and each due tick either lowers
\* the piece by one row or locks it.
PieceFalling ==
  gameStarted /\ ~gameOver /\ ~isPaused /\ currentPiece # NoPiece /\ ~hist.locked

EveryPieceLocks ==
  /\ [][~hist'.locked => currentPosition'.y >= currentPosition.y]_vars
  /\ [][(now - lastDropTime > dropInterval /\ now' = now /\ hist'.key = ""
          /\ FallFrame) =>
          \/ hist'.locked
          \/ currentPosition' = [currentPosition EXCEPT !.y = @ + 1]]_vars
  /\ [](PieceFalling => <>hist.locked)

\* a piece that was moved to the left wall on its way was locked by a tick,
\* on top of locked cells
LockedByTickAfterMoves ==
  /\ hist.locked /\ hist.tickDrop
  /\ hist.lockAt.x <= 0
  /\ hist.lockAt.y < rows - 3

=============================================================================
